---- MODULE Spec2Model ----
(***************************************************************************)
(* Aggressive order-flow monitor (src/index.js): the sliding-window trade  *)
(* aggregator, the open-interest cache, the signal interpreter, the        *)
(* cooldown gate and the minute-aligned alert scheduler, with the          *)
(* orchestrating trade handler.                                            *)
(*                                                                         *)
(* Time is counted in ticks of 1000 ms, the period of the scheduler's      *)
(* minute checker.  A minute is shortened to TicksPerMinute ticks; every   *)
(* duration the code derives from minutes keeps its value in minutes.      *)
(* Percentages are kept as exact fractions [num, den] and compared by      *)
(* cross-multiplication, thresholds being given in hundredths of a percent.*)
(***************************************************************************)
EXTENDS Integers, Sequences, FiniteSets, TLC

\* ------------------------------------------------------------------ bounds
TicksPerMinute == 4      \* ticks in a (shortened) minute
MaxTime == 22            \* the clock stops here (long runs)
ShortMaxTime == 4        \* the clock stops here (short runs)
TwoSymbolsMaxTime == 3   \* the clock stops here (runs on two instruments)
MaxEmptyFlushes == 2     \* calls of flushPendingAlerts with nothing pending
MaxLateness == 2         \* seconds a trade or OI message may arrive late
WindowTicks == 1         \* WINDOW_SECONDS as configured for the model
OIWindowTicks == 1       \* OI_WINDOW_SECONDS as configured for the model
MaxWindowTrades == 2     \* trades retained per instrument
MaxHistory == 3          \* OI history points retained per instrument
MaxFlushes == 5          \* flushes awaiting the sink at once

\* ------------------------------------------------------- program constants
FinalCheckOffsetTicks == 2   \* OI_FINAL_CHECK_OFFSET_MS = 2000
OIHistoryMinutes == 10       \* OI_HISTORY_MINUTES
CooldownMinutes == 5         \* cooldownMinutes
MinVolumeUSD == 1000000      \* minVolumeUSD
MinDominance == 65           \* minDominance (percent)
MinPriceChangeHundredths == 60    \* minPriceChange = 0.6 (percent)
OIMinDeltaHundredths == 60        \* OI_MIN_DELTA_PERCENT = 0.6
OIMinPriceChangeHundredths == 35  \* OI_MIN_PRICE_CHANGE_PERCENT = 0.35
LowOIMinDeltaHundredths == 10         \* OI_MIN_DELTA_PERCENT=0.1 in the environment
LowOIMinPriceChangeHundredths == 5    \* OI_MIN_PRICE_CHANGE_PERCENT=0.05
OIThresholdHundredths == 50       \* OI_THRESHOLD = 0.5
PriceThresholdHundredths == 10    \* PRICE_THRESHOLD = 0.1

OI_ENABLED == TRUE                \* process.env.OI_ENABLED === 'true' || true
TRADING_HOURS_ENABLED == FALSE    \* the default

Null == -1                        \* a null number
NaN == -2                \* what parseFloat / parseInt give for a field that is no number
NullRec == [null |-> TRUE]        \* a null object
NullPct == [num |-> 0, den |-> 0] \* a null percentage

Symbols == {"ADAUSDT", "PEPEUSDT"}
Sides == {"buy", "sell"}
Keys == Symbols \X Sides          \* `${symbol}_${dominantSide}`

\* the feed's values
TradePrices == {100, 101}
TradeQuantities == {10000}
OIValues == {100, 101}
MarkPrices == {100, 101}

VARIABLES
  now,              \* Date.now(), in ticks
  minuteChecked,    \* the minute checker's callback has run in this tick
  states,           \* TradeAggregator.states: symbol -> SymbolState
  oiCache,          \* OKXOpenInterestTracker.oiCache
  lastAlerts,       \* CooldownManager.lastAlerts
  pendingAlerts,    \* AlertManager.pendingAlerts, in insertion order
  finalCheckTimers, \* AlertManager.finalCheckTimers and the timeouts behind it
  flushes,          \* the running calls of flushPendingAlerts, each at its await
  handoffs,         \* per key, the last alert handed to telegram.sendMessage
  delivered,        \* per key, whether a send of an alert has resolved
  config,           \* CONFIG's OI threshold filters, read from the environment
  phase,            \* "running", "stopping" (shutdown awaits its send), "exited"
  emptyFlushes,     \* how often flushPendingAlerts was called with nothing pending
  revisions         \* per key: revisions since its admission, timer firings skipped

\* the same two thresholds when the environment sets OI_MIN_DELTA_PERCENT=0.1
\* and OI_MIN_PRICE_CHANGE_PERCENT=0.05, below the 0.5 and 0.1 that
\* interpretSignal classifies movements with
LowConfig ==
  [oiMinDeltaPercent |-> LowOIMinDeltaHundredths,
   oiMinPriceChangePercent |-> LowOIMinPriceChangeHundredths]

\* CONFIG.OI_MIN_DELTA_PERCENT and CONFIG.OI_MIN_PRICE_CHANGE_PERCENT, in
\* hundredths of a percent, when the environment sets neither
\* OI_MIN_DELTA_PERCENT=0.5 and OI_MIN_PRICE_CHANGE_PERCENT=0.1 in the
\* environment: the gate thresholds equal OI_THRESHOLD and PRICE_THRESHOLD
EqualConfig ==
  [oiMinDeltaPercent |-> OIThresholdHundredths,
   oiMinPriceChangePercent |-> PriceThresholdHundredths]

DefaultConfig ==
  [oiMinDeltaPercent |-> OIMinDeltaHundredths,
   oiMinPriceChangePercent |-> OIMinPriceChangeHundredths]

vars == <<now, minuteChecked, states, oiCache, lastAlerts, pendingAlerts,
          finalCheckTimers, flushes, handoffs, delivered, config, phase,
          emptyFlushes, revisions>>

\* ----------------------------------------------------------------- helpers
Abs(x) == IF x < 0 THEN -x ELSE x

\* |p| >= h/100 and friends, p an exact fraction with den > 0
PctAbsGE(p, h) == Abs(p.num) * 100 >= h * p.den
PctGT(p, h) == p.num * 100 > h * p.den
PctLT(p, h) == p.num * 100 < h * p.den

SecondOfMinute(t) == t % TicksPerMinute          \* new Date().getSeconds()
CooldownTicks == CooldownMinutes * TicksPerMinute
HistoryTicks == OIHistoryMinutes * TicksPerMinute

\* --------------------------------------------------------- SymbolState
NewSymbolState == [trades |-> <<>>, firstPrice |-> Null, lastPrice |-> Null]

\* (with currentTime not a number the cutoff is NaN and no comparison holds)
cleanup(st, currentTime) ==
  LET cutoff == currentTime - WindowTicks
      kept == IF currentTime = NaN THEN <<>>
              ELSE SelectSeq(st.trades, LAMBDA t : t.timestamp >= cutoff)
  IN [trades |-> kept,
      firstPrice |-> IF Len(kept) > 0 THEN kept[1].price ELSE Null,
      lastPrice |-> st.lastPrice]

addTrade(st, timestamp, price, quantity, isBuyerMaker) ==
  LET volume == price * quantity
      trade == [timestamp |-> timestamp, price |-> price,
                buyVol |-> IF isBuyerMaker THEN 0 ELSE volume,
                sellVol |-> IF isBuyerMaker THEN volume ELSE 0]
  IN cleanup([trades |-> Append(st.trades, trade),
              firstPrice |-> IF st.firstPrice = Null THEN price ELSE st.firstPrice,
              lastPrice |-> price],
             timestamp)

RECURSIVE SumBuy(_)
SumBuy(ts) == IF ts = <<>> THEN 0 ELSE ts[1].buyVol + SumBuy(Tail(ts))
RECURSIVE SumSell(_)
SumSell(ts) == IF ts = <<>> THEN 0 ELSE ts[1].sellVol + SumSell(Tail(ts))

getStatsTiesToBuy(st) ==
  IF Len(st.trades) = 0 THEN NullRec
  ELSE LET buyVolume == SumBuy(st.trades)
           sellVolume == SumSell(st.trades)
           totalVolume == buyVolume + sellVolume
       IN IF totalVolume = 0 THEN NullRec
          ELSE [buyVolume |-> buyVolume,
                sellVolume |-> sellVolume,
                totalVolume |-> totalVolume,
                dominantSide |-> IF buyVolume >= sellVolume THEN "buy" ELSE "sell",
                dominance |-> [num |-> (IF buyVolume > sellVolume THEN buyVolume
                                        ELSE sellVolume) * 100,
                               den |-> totalVolume],
                priceChange |-> IF st.firstPrice # Null /\ st.firstPrice # 0
                                THEN [num |-> (st.lastPrice - st.firstPrice) * 100,
                                      den |-> st.firstPrice]
                                ELSE [num |-> 0, den |-> 1],
                duration |-> st.trades[Len(st.trades)].timestamp
                             - st.trades[1].timestamp,
                tradeCount |-> Len(st.trades),
                lastPrice |-> st.lastPrice]

getStats(st) ==
  IF Len(st.trades) = 0 THEN NullRec
  ELSE LET buyVolume == SumBuy(st.trades)
           sellVolume == SumSell(st.trades)
           totalVolume == buyVolume + sellVolume
       IN IF totalVolume = 0 THEN NullRec
          ELSE [buyVolume |-> buyVolume,
                sellVolume |-> sellVolume,
                totalVolume |-> totalVolume,
                dominantSide |-> IF buyVolume > sellVolume THEN "buy" ELSE "sell",
                dominance |-> [num |-> (IF buyVolume > sellVolume THEN buyVolume
                                        ELSE sellVolume) * 100,
                               den |-> totalVolume],
                priceChange |-> IF st.firstPrice # Null /\ st.firstPrice # 0
                                THEN [num |-> (st.lastPrice - st.firstPrice) * 100,
                                      den |-> st.firstPrice]
                                ELSE [num |-> 0, den |-> 1],
                duration |-> st.trades[Len(st.trades)].timestamp
                             - st.trades[1].timestamp,
                tradeCount |-> Len(st.trades),
                lastPrice |-> st.lastPrice]

\* variant: the window survives the reset
resetKeepingWindow(st) == st

reset(st) == NewSymbolState

\* ------------------------------------------------- OKXOpenInterestTracker
NewOICache == [lastOI |-> Null, lastPrice |-> Null, history |-> <<>>]

addToHistoryUnpruned(cache, timestamp, oi, price, dateNow) ==
  IF oi # Null /\ price # Null
  THEN [cache EXCEPT !.history =
          Append(cache.history, [ts |-> timestamp, oi |-> oi, price |-> price])]
  ELSE cache

addToHistory(cache, timestamp, oi, price, dateNow) ==
  IF oi # Null /\ price # Null
  THEN LET pushed == Append(cache.history, [ts |-> timestamp, oi |-> oi, price |-> price])
           cutoff == dateNow - HistoryTicks
       IN [cache EXCEPT !.history = SelectSeq(pushed, LAMBDA item : item.ts >= cutoff)]
  ELSE cache

handleOpenInterest(cache, oi, timestamp, dateNow) ==
  IF oi = NaN \/ timestamp = NaN THEN cache
  ELSE addToHistory([cache EXCEPT !.lastOI = oi], timestamp, oi, cache.lastPrice,
                    dateNow)

handleMarkPrice(cache, markPrice, timestamp, dateNow) ==
  IF markPrice = NaN \/ timestamp = NaN THEN cache
  ELSE addToHistory([cache EXCEPT !.lastPrice = markPrice], timestamp, cache.lastOI,
                    markPrice, dateNow)

\* the index the backward scan stops at: the last point with ts <= windowAgoTime
PastIndex(history, windowAgoTime) ==
  LET old == {i \in 1..Len(history) : history[i].ts <= windowAgoTime}
  IN IF old = {} THEN 0 ELSE CHOOSE i \in old : \A j \in old : j <= i

getOIStats(cache, dateNow) ==
  IF Len(cache.history) = 0 THEN NullRec
  ELSE LET latest == cache.history[Len(cache.history)]
           i == PastIndex(cache.history, dateNow - OIWindowTicks)
       IN IF i = 0
          THEN [oiNow |-> latest.oi, oi5mAgo |-> Null, oiDeltaPct |-> NullPct,
                priceNow |-> latest.price, price5mAgo |-> Null,
                priceDeltaPct |-> NullPct, hasWindowData |-> FALSE]
          ELSE LET past == cache.history[i]
               IN [oiNow |-> latest.oi, oi5mAgo |-> past.oi,
                   oiDeltaPct |-> [num |-> (latest.oi - past.oi) * 100, den |-> past.oi],
                   priceNow |-> latest.price, price5mAgo |-> past.price,
                   priceDeltaPct |-> [num |-> (latest.price - past.price) * 100,
                                      den |-> past.price],
                   hasWindowData |-> TRUE]

\* ------------------------------------------------------------ SignalEngine
IsWithinTradingHours == ~TRADING_HOURS_ENABLED

\* variant: the price move need not agree with the dominant side
shouldAlertUnaligned(stats) ==
  /\ stats # NullRec
  /\ IsWithinTradingHours
  /\ ~(stats.totalVolume < MinVolumeUSD)
  /\ ~(stats.dominance.num < MinDominance * stats.dominance.den)
  /\ PctAbsGE(stats.priceChange, MinPriceChangeHundredths)

shouldAlert(stats) ==
  /\ stats # NullRec
  /\ IsWithinTradingHours
  /\ ~(stats.totalVolume < MinVolumeUSD)
  /\ ~(stats.dominance.num < MinDominance * stats.dominance.den)
  /\ PctAbsGE(stats.priceChange, MinPriceChangeHundredths)
  /\ ~(stats.dominantSide = "buy" /\ stats.priceChange.num < 0)
  /\ ~(stats.dominantSide = "sell" /\ stats.priceChange.num > 0)

Interpretation(flow, final, override, reason, decision, used, dPassed, pPassed) ==
  [type |-> IF flow = "LONG" THEN "SHORT_SQUEEZE" ELSE "LONG_LIQUIDATION",
   flowDirection |-> flow, finalDirection |-> final, oiOverride |-> override,
   oiReason |-> reason, decision |-> decision, oiUsed |-> used,
   oiDeltaPassed |-> dPassed, oiPricePassed |-> pPassed]

interpretSignalIgnoringWindowData(stats, oiStats) ==
  LET flowDirection == IF stats.dominantSide = "buy" THEN "LONG" ELSE "SHORT"
  IN IF ~OI_ENABLED \/ oiStats = NullRec
     THEN Interpretation(flowDirection, flowDirection, FALSE, "null", "NO_OI_DATA",
                         FALSE, FALSE, FALSE)
     ELSE
     LET oiDeltaPassed == PctAbsGE(oiStats.oiDeltaPct, config.oiMinDeltaPercent)
         oiPricePassed == PctAbsGE(oiStats.priceDeltaPct, config.oiMinPriceChangePercent)
         priceRising == PctGT(oiStats.priceDeltaPct, PriceThresholdHundredths)
         priceFalling == PctLT(oiStats.priceDeltaPct, -PriceThresholdHundredths)
         oiRising == PctGT(oiStats.oiDeltaPct, OIThresholdHundredths)
         oiFalling == PctLT(oiStats.oiDeltaPct, -OIThresholdHundredths)
     IN IF ~(oiDeltaPassed /\ oiPricePassed)
        THEN Interpretation(flowDirection, flowDirection, FALSE, "ignored", "BASE",
                            FALSE, oiDeltaPassed, oiPricePassed)
        ELSE IF priceFalling /\ oiRising
        THEN Interpretation(flowDirection, "SHORT", flowDirection = "LONG",
                            "breakout down", "CONTINUATION", TRUE, TRUE, TRUE)
        ELSE IF priceFalling /\ oiFalling
        THEN Interpretation(flowDirection, "LONG", flowDirection = "SHORT",
                            "long liquidation", "BOUNCE", TRUE, TRUE, TRUE)
        ELSE IF priceRising /\ oiRising
        THEN Interpretation(flowDirection, "LONG", flowDirection = "SHORT",
                            "breakout up", "CONTINUATION", TRUE, TRUE, TRUE)
        ELSE IF priceRising /\ oiFalling
        THEN Interpretation(flowDirection, "SHORT", flowDirection = "LONG",
                            "short squeeze", "BOUNCE", TRUE, TRUE, TRUE)
        ELSE Interpretation(flowDirection, flowDirection, FALSE, "no clear signal",
                            "INCONCLUSIVE", TRUE, TRUE, TRUE)

interpretSignalEitherThreshold(stats, oiStats) ==
  LET flowDirection == IF stats.dominantSide = "buy" THEN "LONG" ELSE "SHORT"
  IN IF ~OI_ENABLED \/ oiStats = NullRec \/ ~oiStats.hasWindowData
     THEN Interpretation(flowDirection, flowDirection, FALSE, "null", "NO_OI_DATA",
                         FALSE, FALSE, FALSE)
     ELSE
     LET oiDeltaPassed == PctAbsGE(oiStats.oiDeltaPct, config.oiMinDeltaPercent)
         oiPricePassed == PctAbsGE(oiStats.priceDeltaPct, config.oiMinPriceChangePercent)
         priceRising == PctGT(oiStats.priceDeltaPct, PriceThresholdHundredths)
         priceFalling == PctLT(oiStats.priceDeltaPct, -PriceThresholdHundredths)
         oiRising == PctGT(oiStats.oiDeltaPct, OIThresholdHundredths)
         oiFalling == PctLT(oiStats.oiDeltaPct, -OIThresholdHundredths)
     IN IF ~(oiDeltaPassed \/ oiPricePassed)
        THEN Interpretation(flowDirection, flowDirection, FALSE, "ignored", "BASE",
                            FALSE, oiDeltaPassed, oiPricePassed)
        ELSE IF priceFalling /\ oiRising
        THEN Interpretation(flowDirection, "SHORT", flowDirection = "LONG",
                            "breakout down", "CONTINUATION", TRUE, TRUE, TRUE)
        ELSE IF priceFalling /\ oiFalling
        THEN Interpretation(flowDirection, "LONG", flowDirection = "SHORT",
                            "long liquidation", "BOUNCE", TRUE, TRUE, TRUE)
        ELSE IF priceRising /\ oiRising
        THEN Interpretation(flowDirection, "LONG", flowDirection = "SHORT",
                            "breakout up", "CONTINUATION", TRUE, TRUE, TRUE)
        ELSE IF priceRising /\ oiFalling
        THEN Interpretation(flowDirection, "SHORT", flowDirection = "LONG",
                            "short squeeze", "BOUNCE", TRUE, TRUE, TRUE)
        ELSE Interpretation(flowDirection, flowDirection, FALSE, "no clear signal",
                            "INCONCLUSIVE", TRUE, TRUE, TRUE)

interpretSignalSqueezeLong(stats, oiStats) ==
  LET flowDirection == IF stats.dominantSide = "buy" THEN "LONG" ELSE "SHORT"
  IN IF ~OI_ENABLED \/ oiStats = NullRec \/ ~oiStats.hasWindowData
     THEN Interpretation(flowDirection, flowDirection, FALSE, "null", "NO_OI_DATA",
                         FALSE, FALSE, FALSE)
     ELSE
     LET oiDeltaPassed == PctAbsGE(oiStats.oiDeltaPct, config.oiMinDeltaPercent)
         oiPricePassed == PctAbsGE(oiStats.priceDeltaPct, config.oiMinPriceChangePercent)
         priceRising == PctGT(oiStats.priceDeltaPct, PriceThresholdHundredths)
         priceFalling == PctLT(oiStats.priceDeltaPct, -PriceThresholdHundredths)
         oiRising == PctGT(oiStats.oiDeltaPct, OIThresholdHundredths)
         oiFalling == PctLT(oiStats.oiDeltaPct, -OIThresholdHundredths)
     IN IF ~(oiDeltaPassed /\ oiPricePassed)
        THEN Interpretation(flowDirection, flowDirection, FALSE, "ignored", "BASE",
                            FALSE, oiDeltaPassed, oiPricePassed)
        ELSE IF priceFalling /\ oiRising
        THEN Interpretation(flowDirection, "SHORT", flowDirection = "LONG",
                            "breakout down", "CONTINUATION", TRUE, TRUE, TRUE)
        ELSE IF priceFalling /\ oiFalling
        THEN Interpretation(flowDirection, "LONG", flowDirection = "SHORT",
                            "long liquidation", "BOUNCE", TRUE, TRUE, TRUE)
        ELSE IF priceRising /\ oiRising
        THEN Interpretation(flowDirection, "LONG", flowDirection = "SHORT",
                            "breakout up", "CONTINUATION", TRUE, TRUE, TRUE)
        ELSE IF priceRising /\ oiFalling
        THEN Interpretation(flowDirection, "LONG", flowDirection = "SHORT",
                            "short squeeze", "BOUNCE", TRUE, TRUE, TRUE)
        ELSE Interpretation(flowDirection, flowDirection, FALSE, "no clear signal",
                            "INCONCLUSIVE", TRUE, TRUE, TRUE)

interpretSignalOverrideOnBreakout(stats, oiStats) ==
  LET flowDirection == IF stats.dominantSide = "buy" THEN "LONG" ELSE "SHORT"
  IN IF ~OI_ENABLED \/ oiStats = NullRec \/ ~oiStats.hasWindowData
     THEN Interpretation(flowDirection, flowDirection, FALSE, "null", "NO_OI_DATA",
                         FALSE, FALSE, FALSE)
     ELSE
     LET oiDeltaPassed == PctAbsGE(oiStats.oiDeltaPct, config.oiMinDeltaPercent)
         oiPricePassed == PctAbsGE(oiStats.priceDeltaPct, config.oiMinPriceChangePercent)
         priceRising == PctGT(oiStats.priceDeltaPct, PriceThresholdHundredths)
         priceFalling == PctLT(oiStats.priceDeltaPct, -PriceThresholdHundredths)
         oiRising == PctGT(oiStats.oiDeltaPct, OIThresholdHundredths)
         oiFalling == PctLT(oiStats.oiDeltaPct, -OIThresholdHundredths)
     IN IF ~(oiDeltaPassed /\ oiPricePassed)
        THEN Interpretation(flowDirection, flowDirection, FALSE, "ignored", "BASE",
                            FALSE, oiDeltaPassed, oiPricePassed)
        ELSE IF priceFalling /\ oiRising
        THEN Interpretation(flowDirection, "SHORT", TRUE,
                            "breakout down", "CONTINUATION", TRUE, TRUE, TRUE)
        ELSE IF priceFalling /\ oiFalling
        THEN Interpretation(flowDirection, "LONG", flowDirection = "SHORT",
                            "long liquidation", "BOUNCE", TRUE, TRUE, TRUE)
        ELSE IF priceRising /\ oiRising
        THEN Interpretation(flowDirection, "LONG", flowDirection = "SHORT",
                            "breakout up", "CONTINUATION", TRUE, TRUE, TRUE)
        ELSE IF priceRising /\ oiFalling
        THEN Interpretation(flowDirection, "SHORT", flowDirection = "LONG",
                            "short squeeze", "BOUNCE", TRUE, TRUE, TRUE)
        ELSE Interpretation(flowDirection, flowDirection, FALSE, "no clear signal",
                            "INCONCLUSIVE", TRUE, TRUE, TRUE)

\* variant: an OI move counts as rising or falling only from twice OI_THRESHOLD
interpretSignalCoarseSignificance(stats, oiStats) ==
  LET flowDirection == IF stats.dominantSide = "buy" THEN "LONG" ELSE "SHORT"
  IN IF ~OI_ENABLED \/ oiStats = NullRec \/ ~oiStats.hasWindowData
     THEN Interpretation(flowDirection, flowDirection, FALSE, "null", "NO_OI_DATA",
                         FALSE, FALSE, FALSE)
     ELSE
     LET oiDeltaPassed == PctAbsGE(oiStats.oiDeltaPct, config.oiMinDeltaPercent)
         oiPricePassed == PctAbsGE(oiStats.priceDeltaPct, config.oiMinPriceChangePercent)
         priceRising == PctGT(oiStats.priceDeltaPct, PriceThresholdHundredths)
         priceFalling == PctLT(oiStats.priceDeltaPct, -PriceThresholdHundredths)
         oiRising == PctGT(oiStats.oiDeltaPct, 2 * OIThresholdHundredths)
         oiFalling == PctLT(oiStats.oiDeltaPct, -2 * OIThresholdHundredths)
     IN IF ~(oiDeltaPassed /\ oiPricePassed)
        THEN Interpretation(flowDirection, flowDirection, FALSE, "ignored", "BASE",
                            FALSE, oiDeltaPassed, oiPricePassed)
        ELSE IF priceFalling /\ oiRising
        THEN Interpretation(flowDirection, "SHORT", flowDirection = "LONG",
                            "breakout down", "CONTINUATION", TRUE, TRUE, TRUE)
        ELSE IF priceFalling /\ oiFalling
        THEN Interpretation(flowDirection, "LONG", flowDirection = "SHORT",
                            "long liquidation", "BOUNCE", TRUE, TRUE, TRUE)
        ELSE IF priceRising /\ oiRising
        THEN Interpretation(flowDirection, "LONG", flowDirection = "SHORT",
                            "breakout up", "CONTINUATION", TRUE, TRUE, TRUE)
        ELSE IF priceRising /\ oiFalling
        THEN Interpretation(flowDirection, "SHORT", flowDirection = "LONG",
                            "short squeeze", "BOUNCE", TRUE, TRUE, TRUE)
        ELSE Interpretation(flowDirection, flowDirection, FALSE, "no clear signal",
                            "INCONCLUSIVE", TRUE, TRUE, TRUE)

interpretSignal(stats, oiStats) ==
  LET flowDirection == IF stats.dominantSide = "buy" THEN "LONG" ELSE "SHORT"
  IN IF ~OI_ENABLED \/ oiStats = NullRec \/ ~oiStats.hasWindowData
     THEN Interpretation(flowDirection, flowDirection, FALSE, "null", "NO_OI_DATA",
                         FALSE, FALSE, FALSE)
     ELSE
     LET oiDeltaPassed == PctAbsGE(oiStats.oiDeltaPct, config.oiMinDeltaPercent)
         oiPricePassed == PctAbsGE(oiStats.priceDeltaPct, config.oiMinPriceChangePercent)
         priceRising == PctGT(oiStats.priceDeltaPct, PriceThresholdHundredths)
         priceFalling == PctLT(oiStats.priceDeltaPct, -PriceThresholdHundredths)
         oiRising == PctGT(oiStats.oiDeltaPct, OIThresholdHundredths)
         oiFalling == PctLT(oiStats.oiDeltaPct, -OIThresholdHundredths)
     IN IF ~(oiDeltaPassed /\ oiPricePassed)
        THEN Interpretation(flowDirection, flowDirection, FALSE, "ignored", "BASE",
                            FALSE, oiDeltaPassed, oiPricePassed)
        ELSE IF priceFalling /\ oiRising
        THEN Interpretation(flowDirection, "SHORT", flowDirection = "LONG",
                            "breakout down", "CONTINUATION", TRUE, TRUE, TRUE)
        ELSE IF priceFalling /\ oiFalling
        THEN Interpretation(flowDirection, "LONG", flowDirection = "SHORT",
                            "long liquidation", "BOUNCE", TRUE, TRUE, TRUE)
        ELSE IF priceRising /\ oiRising
        THEN Interpretation(flowDirection, "LONG", flowDirection = "SHORT",
                            "breakout up", "CONTINUATION", TRUE, TRUE, TRUE)
        ELSE IF priceRising /\ oiFalling
        THEN Interpretation(flowDirection, "SHORT", flowDirection = "LONG",
                            "short squeeze", "BOUNCE", TRUE, TRUE, TRUE)
        ELSE Interpretation(flowDirection, flowDirection, FALSE, "no clear signal",
                            "INCONCLUSIVE", TRUE, TRUE, TRUE)

\* --------------------------------------------------------- CooldownManager
canAlertStrictlyAfter(alerts, symbol, stats, dateNow) ==
  LET lastTime == alerts[<<symbol, stats.dominantSide>>]
  IN IF lastTime = Null \/ lastTime = 0 THEN TRUE
     ELSE dateNow - lastTime > CooldownTicks

canAlert(alerts, symbol, stats, dateNow) ==
  LET lastTime == alerts[<<symbol, stats.dominantSide>>]
  IN IF lastTime = Null \/ lastTime = 0 THEN TRUE
     ELSE dateNow - lastTime >= CooldownTicks

recordAlertBothSides(alerts, symbol, stats, dateNow) ==
  [k \in DOMAIN alerts |-> IF k[1] = symbol THEN dateNow ELSE alerts[k]]

recordAlert(alerts, symbol, stats, dateNow) ==
  [alerts EXCEPT ![<<symbol, stats.dominantSide>>] = dateNow]

\* ------------------------------------------------------------ AlertManager
\* pendingAlerts is a Map: a sequence of [key, data] in insertion order
PendingHas(pa, key) == \E i \in 1..Len(pa) : pa[i].key = key
PendingGet(pa, key) == pa[CHOOSE i \in 1..Len(pa) : pa[i].key = key].data
PendingSet(pa, key, data) ==
  IF PendingHas(pa, key)
  THEN [i \in 1..Len(pa) |-> IF pa[i].key = key THEN [key |-> key, data |-> data]
                             ELSE pa[i]]
  ELSE Append(pa, [key |-> key, data |-> data])

NoTimer == [registered |-> FALSE, armed |-> FALSE, at |-> Null, alertData |-> NullRec]

\* variant: the delay counted from a whole minute, whatever the second
scheduleFinalOICheckWholeMinute(timers, key, alertData, dateNow) ==
  [timers EXCEPT ![key] = [registered |-> TRUE, armed |-> TRUE,
                           at |-> dateNow + TicksPerMinute - FinalCheckOffsetTicks,
                           alertData |-> alertData]]

scheduleFinalOICheck(timers, key, alertData, dateNow) ==
  LET cleared == IF timers[key].registered
                 THEN [timers EXCEPT ![key].armed = FALSE]
                 ELSE timers
      secondsUntilNextMinute == TicksPerMinute - SecondOfMinute(dateNow)
      msUntilFinalCheck == secondsUntilNextMinute - FinalCheckOffsetTicks
  IN IF msUntilFinalCheck > 0
     THEN [cleared EXCEPT ![key] = [registered |-> TRUE, armed |-> TRUE,
                                    at |-> dateNow + msUntilFinalCheck,
                                    alertData |-> alertData]]
     ELSE cleared

\* variant: the candidate is stored whether or not the key is pending
sendAlertOverwriting(pa, timers, symbol, stats, interpretation, oiStats, dateNow) ==
  LET alertData == [symbol |-> symbol, stats |-> stats,
                    interpretation |-> interpretation, oiStats |-> oiStats,
                    timestamp |-> dateNow]
      key == <<symbol, stats.dominantSide>>
  IN [pending |-> PendingSet(pa, key, alertData),
      timers |-> scheduleFinalOICheck(timers, key, alertData, dateNow)]

\* sendAlert: the new pendingAlerts and finalCheckTimers
sendAlert(pa, timers, symbol, stats, interpretation, oiStats, dateNow) ==
  LET alertData == [symbol |-> symbol, stats |-> stats,
                    interpretation |-> interpretation, oiStats |-> oiStats,
                    timestamp |-> dateNow]
      key == <<symbol, stats.dominantSide>>
  IN IF ~PendingHas(pa, key)
     THEN [pending |-> PendingSet(pa, key, alertData),
           timers |-> scheduleFinalOICheck(timers, key, alertData, dateNow)]
     ELSE [pending |-> pa, timers |-> timers]

\* variant: the candidate is revised with any snapshot, window data or not
performFinalOICheckAnySnapshot(pa, timers, key, alertData, cache, dateNow) ==
  LET fired == [timers EXCEPT ![key].armed = FALSE]
  IN IF ~PendingHas(pa, key)
     THEN [pending |-> pa, timers |-> fired, revised |-> FALSE, skipped |-> TRUE]
     ELSE LET freshOIStats == getOIStats(cache, dateNow)
              usable == freshOIStats # NullRec
              revised == IF usable
                         THEN PendingSet(pa, key,
                                [alertData EXCEPT
                                   !.interpretation =
                                      interpretSignal(alertData.stats, freshOIStats),
                                   !.oiStats = freshOIStats])
                         ELSE pa
          IN [pending |-> revised, timers |-> [fired EXCEPT ![key] = NoTimer],
              revised |-> usable, skipped |-> FALSE]

\* variant: the callback does not look whether the key is still pending
performFinalOICheckUnguarded(pa, timers, key, alertData, cache, dateNow) ==
  LET fired == [timers EXCEPT ![key].armed = FALSE]
      freshOIStats == getOIStats(cache, dateNow)
      usable == freshOIStats # NullRec /\ freshOIStats.hasWindowData
      revised == IF usable
                 THEN PendingSet(pa, key,
                        [alertData EXCEPT
                           !.interpretation =
                              interpretSignal(alertData.stats, freshOIStats),
                           !.oiStats = freshOIStats])
                 ELSE pa
  IN [pending |-> revised, timers |-> [fired EXCEPT ![key] = NoTimer],
      revised |-> usable, skipped |-> ~PendingHas(pa, key)]

\* performFinalOICheck: the new pendingAlerts and finalCheckTimers, whether
\* the candidate was revised, and whether the callback returned early
performFinalOICheck(pa, timers, key, alertData, cache, dateNow) ==
  LET fired == [timers EXCEPT ![key].armed = FALSE]
  IN IF ~PendingHas(pa, key)
     THEN [pending |-> pa, timers |-> fired, revised |-> FALSE, skipped |-> TRUE]
     ELSE LET freshOIStats == getOIStats(cache, dateNow)
              usable == freshOIStats # NullRec /\ freshOIStats.hasWindowData
              revised == IF usable
                         THEN PendingSet(pa, key,
                                [alertData EXCEPT
                                   !.interpretation =
                                      interpretSignal(alertData.stats, freshOIStats),
                                   !.oiStats = freshOIStats])
                         ELSE pa
          IN [pending |-> revised, timers |-> [fired EXCEPT ![key] = NoTimer],
              revised |-> usable, skipped |-> FALSE]

\* what performFinalOICheck did for a key: how often it revised the candidate
\* pending since the key's last admission, and whether it ever returned early
NoRevision == [made |-> 0, skipped |-> FALSE]

\* sendTelegramMessage hands the entry's alert to telegram.sendMessage: the
\* key's record of the alert handed over (its timestamp), when, and how often
NoHandoff == [timestamp |-> Null, at |-> Null, count |-> 0]
sendTelegramMessage(h, entry, dateNow) ==
  [h EXCEPT ![entry.key] =
     [timestamp |-> entry.data.timestamp, at |-> dateNow,
      count |-> IF h[entry.key].timestamp = entry.data.timestamp
                THEN h[entry.key].count + 1 ELSE 1]]

\* a call of flushPendingAlerts at its await: the iterator's position in
\* pendingAlerts and the alert whose send it awaits
Awaiting(idx, entry) ==
  [idx |-> idx, key |-> entry.key, timestamp |-> entry.data.timestamp]

\* variant: the loop of flushPendingAlerts ends after its first send
HasNextNever(fl, pa) == FALSE

\* variant: the iterator passes over an entry stored this second
HasNextOlder(fl, pa) ==
  fl.idx < Len(pa) /\ pa[fl.idx + 1].data.timestamp < now

\* the iterator of flushPendingAlerts has a further entry of pendingAlerts
HasNext(fl, pa) == fl.idx < Len(pa)

\* variant: a call with nothing pending forgets what was handed over
flushPendingAlertsForgetting(pa, fl, h, dateNow) ==
  IF Len(pa) > 0
  THEN [pending |-> pa,
        flushes |-> Append(fl, Awaiting(1, pa[1])),
        handoffs |-> sendTelegramMessage(h, pa[1], dateNow)]
  ELSE [pending |-> <<>>, flushes |-> fl, handoffs |-> [k \in DOMAIN h |-> NoHandoff]]

\* flushPendingAlerts from its call to its first await: the first entry of
\* pendingAlerts is handed to the sink and the call waits; with no entry the
\* loop body never runs and the call ends at once, clearing the empty map
flushPendingAlerts(pa, fl, h, dateNow) ==
  IF Len(pa) > 0
  THEN [pending |-> pa,
        flushes |-> Append(fl, Awaiting(1, pa[1])),
        handoffs |-> sendTelegramMessage(h, pa[1], dateNow)]
  ELSE [pending |-> <<>>, flushes |-> fl, handoffs |-> h]

\* ------------------------------------------------------------------- state
Init ==
  /\ now = 1
  /\ minuteChecked = TRUE
  /\ states = [s \in Symbols |-> NewSymbolState]
  /\ oiCache = [s \in Symbols |-> NewOICache]
  /\ lastAlerts = [k \in Keys |-> Null]
  /\ pendingAlerts = <<>>
  /\ finalCheckTimers = [k \in Keys |-> NoTimer]
  /\ flushes = <<>>
  /\ handoffs = [k \in Keys |-> NoHandoff]
  /\ delivered = [k \in Keys |-> FALSE]
  /\ config = DefaultConfig
  /\ phase = "running"
  /\ emptyFlushes = 0
  /\ revisions = [k \in Keys |-> NoRevision]

\* a timeout that is due has fired before the clock moves on
TimerDue(k) == finalCheckTimers[k].armed /\ finalCheckTimers[k].at <= now

\* one second passes
TickBefore(limit) ==
  /\ phase # "exited"
  /\ now < limit
  /\ minuteChecked \/ phase = "stopping"
  /\ \A k \in Keys : ~TimerDue(k)
  /\ now' = now + 1
  /\ minuteChecked' = FALSE
  /\ UNCHANGED <<config, phase, emptyFlushes, revisions, states, oiCache, lastAlerts, pendingAlerts, finalCheckTimers,
                 flushes, handoffs, delivered>>

\* MultiWebSocketManager.handleMessage: one aggTrade event carrying trade
\* time T = timestamp
TradeEventAt(symbol, timestamp, price, quantity, isBuyerMaker) ==
  LET added == addTrade(states[symbol], timestamp, price, quantity, isBuyerMaker)
      stats == getStats(added)
      admitted ==
        /\ IsWithinTradingHours
        /\ stats # NullRec
        /\ stats.totalVolume * 2 >= MinVolumeUSD
        /\ shouldAlert(stats)
        /\ canAlert(lastAlerts, symbol, stats, now)
      oiStats == getOIStats(oiCache[symbol], now)
      interpretation == interpretSignal(stats, oiStats)
      sent == sendAlert(pendingAlerts, finalCheckTimers, symbol, stats,
                        interpretation, oiStats, now)
  IN /\ phase # "exited"
     /\ Len(added.trades) <= MaxWindowTrades
     /\ IF admitted
        THEN /\ pendingAlerts' = sent.pending
             /\ finalCheckTimers' = sent.timers
             /\ revisions' = IF PendingHas(pendingAlerts, <<symbol, stats.dominantSide>>)
                             THEN revisions
                             ELSE [revisions EXCEPT
                                     ![<<symbol, stats.dominantSide>>].made = 0]
             /\ lastAlerts' = recordAlert(lastAlerts, symbol, stats, now)
             /\ states' = [states EXCEPT ![symbol] = reset(added)]
        ELSE /\ states' = [states EXCEPT ![symbol] = added]
             /\ UNCHANGED <<pendingAlerts, finalCheckTimers, lastAlerts, revisions>>
     /\ UNCHANGED <<config, phase, emptyFlushes, now, minuteChecked, oiCache, flushes, handoffs, delivered>>

\* as many seconds as the OI history retains pass with no message, nothing
\* pending, no timeout armed and no flush running: the interval's callbacks in
\* between find nothing to do
LongSilence ==
  /\ phase = "running"
  /\ now <= ShortMaxTime
  /\ minuteChecked
  /\ pendingAlerts = <<>>
  /\ flushes = <<>>
  /\ \A k \in Keys : ~finalCheckTimers[k].armed
  /\ now' = now + HistoryTicks
  /\ minuteChecked' = FALSE
  /\ UNCHANGED <<config, phase, emptyFlushes, revisions, states, oiCache, lastAlerts, pendingAlerts, finalCheckTimers,
                 flushes, handoffs, delivered>>

\* one aggTrade event delivered at its trade time, T = now
TradeEvent(symbol, price, quantity, isBuyerMaker) ==
  TradeEventAt(symbol, now, price, quantity, isBuyerMaker)

\* OKXOpenInterestTracker.handleMessage: an open-interest push carrying
\* data.ts = timestamp
OpenInterestEventAt(symbol, oi, timestamp) ==
  LET cache == handleOpenInterest(oiCache[symbol], oi, timestamp, now)
  IN /\ phase # "exited"
     /\ Len(cache.history) <= MaxHistory
     /\ oiCache' = [oiCache EXCEPT ![symbol] = cache]
     /\ UNCHANGED <<config, phase, emptyFlushes, revisions, now, minuteChecked, states, lastAlerts, pendingAlerts,
                    finalCheckTimers, flushes, handoffs, delivered>>

\* an open-interest push delivered at its own time, ts = now
OpenInterestEvent(symbol, oi) == OpenInterestEventAt(symbol, oi, now)

\* OKXOpenInterestTracker.handleMessage: a mark-price push carrying
\* data.ts = timestamp
MarkPriceEventAt(symbol, markPrice, timestamp) ==
  LET cache == handleMarkPrice(oiCache[symbol], markPrice, timestamp, now)
  IN /\ phase # "exited"
     /\ Len(cache.history) <= MaxHistory
     /\ oiCache' = [oiCache EXCEPT ![symbol] = cache]
     /\ UNCHANGED <<config, phase, emptyFlushes, revisions, now, minuteChecked, states, lastAlerts, pendingAlerts,
                    finalCheckTimers, flushes, handoffs, delivered>>

\* a mark-price push delivered at its own time, ts = now
MarkPriceEvent(symbol, markPrice) == MarkPriceEventAt(symbol, markPrice, now)

\* the timeout armed by scheduleFinalOICheck fires
FinalCheckTimer(key) ==
  /\ phase # "exited"
  /\ TimerDue(key)
  /\ LET r == performFinalOICheck(pendingAlerts, finalCheckTimers, key,
                                  finalCheckTimers[key].alertData,
                                  oiCache[key[1]], now)
     IN /\ pendingAlerts' = r.pending
        /\ finalCheckTimers' = r.timers
        /\ revisions' = [revisions EXCEPT
                           ![key].made = IF r.revised THEN @ + 1 ELSE @,
                           ![key].skipped = @ \/ r.skipped]
  /\ UNCHANGED <<config, phase, emptyFlushes, now, minuteChecked, states, oiCache, lastAlerts, flushes,
                 handoffs, delivered>>

\* variant: the callback never starts a flush
MinuteCheckIdle ==
  /\ phase = "running"
  /\ ~minuteChecked
  /\ minuteChecked' = TRUE
  /\ UNCHANGED <<config, phase, emptyFlushes, revisions, now, states, oiCache, lastAlerts, pendingAlerts, finalCheckTimers,
                 flushes, handoffs, delivered>>

\* startMinuteChecker's callback; at second 0 with alerts pending it calls
\* flushPendingAlerts, which runs up to its first await
MinuteCheck ==
  /\ phase = "running"
  /\ ~minuteChecked
  /\ minuteChecked' = TRUE
  /\ IF SecondOfMinute(now) = 0 /\ Len(pendingAlerts) > 0
     THEN LET r == flushPendingAlerts(pendingAlerts, flushes, handoffs, now)
          IN /\ Len(flushes) < MaxFlushes
             /\ handoffs' = r.handoffs
             /\ flushes' = r.flushes
     ELSE UNCHANGED <<flushes, handoffs>>
  /\ UNCHANGED <<config, phase, emptyFlushes, revisions, now, states, oiCache, lastAlerts, pendingAlerts, finalCheckTimers,
                 delivered>>

\* flushPendingAlerts called by any caller, at any second
FlushCall ==
  /\ phase # "exited"
  /\ LET r == flushPendingAlerts(pendingAlerts, flushes, handoffs, now)
     IN /\ Len(r.flushes) <= MaxFlushes
        /\ pendingAlerts' = r.pending
        /\ flushes' = r.flushes
        /\ handoffs' = r.handoffs
  /\ emptyFlushes' = IF Len(pendingAlerts) = 0 THEN emptyFlushes + 1 ELSE emptyFlushes
  /\ emptyFlushes' <= MaxEmptyFlushes
  /\ UNCHANGED <<config, phase, revisions, now, minuteChecked, states, oiCache,
                 lastAlerts, finalCheckTimers, delivered>>

\* flushPendingAlerts resumes after its await: the send resolved (ok) or threw
SinkSettle(f, ok) ==
  /\ phase # "exited"
  /\ f \in 1..Len(flushes)
  /\ LET fl == flushes[f]
         key == fl.key
     IN /\ finalCheckTimers' = IF ok /\ finalCheckTimers[key].registered
                               THEN [finalCheckTimers EXCEPT ![key] = NoTimer]
                               ELSE finalCheckTimers
        /\ delivered' = IF ok THEN [delivered EXCEPT ![key] = TRUE] ELSE delivered
        /\ IF HasNext(fl, pendingAlerts)
           THEN /\ handoffs' = sendTelegramMessage(handoffs, pendingAlerts[fl.idx + 1], now)
                /\ flushes' = [flushes EXCEPT ![f] =
                                 Awaiting(fl.idx + 1, pendingAlerts[fl.idx + 1])]
                /\ UNCHANGED pendingAlerts
           ELSE /\ UNCHANGED handoffs
                /\ pendingAlerts' = <<>>
                /\ flushes' = [g \in 1..Len(flushes) - 1 |->
                                 [flushes[IF g < f THEN g ELSE g + 1]
                                    EXCEPT !.idx = 0]]
  /\ UNCHANGED <<config, phase, emptyFlushes, revisions, now, minuteChecked, states, oiCache, lastAlerts>>

\* BinanceFuturesFlowBot.shutdown up to its await: the feeds are told to
\* close, AlertManager.stop clears the interval and every revision timeout,
\* and the stop notice is handed to telegram.sendMessage
Shutdown ==
  /\ phase = "running"
  /\ phase' = "stopping"
  /\ finalCheckTimers' = [k \in Keys |-> NoTimer]
  /\ UNCHANGED <<config, emptyFlushes, revisions, now, minuteChecked, states, oiCache, lastAlerts,
                 pendingAlerts, flushes, handoffs, delivered>>

\* shutdown resumes after its await and calls process.exit
Exit ==
  /\ phase = "stopping"
  /\ phase' = "exited"
  /\ UNCHANGED <<config, emptyFlushes, revisions, now, minuteChecked, states, oiCache, lastAlerts,
                 pendingAlerts, finalCheckTimers, flushes, handoffs, delivered>>

Tick == TickBefore(MaxTime)
TickShort == TickBefore(ShortMaxTime)

TradeEventsOn(symbols, makers) ==
  \E s \in symbols, p \in TradePrices, q \in TradeQuantities, m \in makers :
    TradeEvent(s, p, q, m)
TradeEvents(makers) == TradeEventsOn({"ADAUSDT"}, makers)
BuyTrade == TradeEvents({FALSE})
AnyTrade == TradeEvents(BOOLEAN)
OIFeed ==
  \/ \E oi \in OIValues : OpenInterestEvent("ADAUSDT", oi)
  \/ \E px \in MarkPrices : MarkPriceEvent("ADAUSDT", px)
Timers == \E k \in Keys : FinalCheckTimer(k)
Sink == \E f \in 1..MaxFlushes, ok \in BOOLEAN : SinkSettle(f, ok)

\* aggressive buying only, the OI feed silent, over more than a cooldown
Next == Tick \/ MinuteCheck \/ BuyTrade \/ Timers \/ Sink
Spec == Init /\ [][Next]_vars

\* buying and selling, the OI feed silent, up to the first minute boundary
NextTwoSided == TickShort \/ MinuteCheck \/ AnyTrade \/ Timers \/ Sink
SpecTwoSided == Init /\ [][NextTwoSided]_vars

\* the same, with the interval's callback running every second and the
\* timeouts firing when due; nothing is assumed of the sink
SpecTwoSidedLive ==
  /\ SpecTwoSided
  /\ WF_vars(TickShort)
  /\ WF_vars(MinuteCheck)
  /\ WF_vars(Timers)

\* aggressive buying with the OI feed delivering, up to the first minute boundary
NextOI == TickShort \/ MinuteCheck \/ BuyTrade \/ OIFeed \/ Timers \/ Sink
SpecOI == Init /\ [][NextOI]_vars

\* buying and selling on one instrument and buying on another of the same
\* configuration, the OI feed silent, before the first minute boundary (no
\* flush starts, so the sink is never called)
TwoSymbolTrade ==
  \/ TradeEventsOn({"ADAUSDT"}, BOOLEAN)
  \/ TradeEventsOn({"PEPEUSDT"}, {FALSE})
TickTwoSymbols == TickBefore(TwoSymbolsMaxTime)
NextTwoSymbols == TickTwoSymbols \/ MinuteCheck \/ TwoSymbolTrade \/ Timers
SpecTwoSymbols == Init /\ [][NextTwoSymbols]_vars

\* aggressive buying on one instrument whose trades may be delivered up to
\* MaxLateness seconds after their trade time, in any order
LateBuyTrade ==
  \E d \in 0..MaxLateness, p \in TradePrices, q \in TradeQuantities :
    /\ now - d >= 1
    /\ TradeEventAt("ADAUSDT", now - d, p, q, FALSE)
NextLateTrades == TickShort \/ MinuteCheck \/ LateBuyTrade \/ Timers \/ Sink
SpecLateTrades == Init /\ [][NextLateTrades]_vars

\* the OI feed alone, its two channels' messages delivered up to MaxLateness
\* seconds after their own time, over the first seconds of a run and the
\* first seconds after a silence as long as the history retains (no trade
\* arrives, so nothing is ever pending)
TickOITracker ==
  \E base \in {0, HistoryTicks} : now > base /\ TickBefore(base + ShortMaxTime)
LateOIFeed ==
  \E d \in 0..MaxLateness :
    /\ now - d >= 1
    /\ \/ \E oi \in OIValues : OpenInterestEventAt("ADAUSDT", oi, now - d)
       \/ \E px \in MarkPrices : MarkPriceEventAt("ADAUSDT", px, now - d)
NextOITracker == TickOITracker \/ MinuteCheck \/ LateOIFeed \/ LongSilence
SpecOITracker == Init /\ [][NextOITracker]_vars

\* the interpreter's inputs: the bot has run for one second under either
\* configuration and the OI feed has delivered an open-interest and a
\* mark-price message in each of its two seconds, with values that sit on,
\* just under and just over the thresholds; from then on the feed is silent
\* and buying and selling arrive (a timeout armed from second 2 on is not due
\* before the clock stops)
FineOIValues == {10000, 10050, 10060}
FineMarkPrices == {10000, 10010, 10035}
InitInterpreter ==
  /\ now = 2
  /\ minuteChecked = TRUE
  /\ states = [s \in Symbols |-> NewSymbolState]
  /\ \E oi1, oi2 \in FineOIValues, px1, px2 \in FineMarkPrices :
       oiCache =
         [s \in Symbols |->
            IF s = "ADAUSDT"
            THEN handleMarkPrice(
                   handleOpenInterest(
                     handleMarkPrice(
                       handleOpenInterest(NewOICache, oi1, 1, 1), px1, 1, 1),
                     oi2, 2, 2),
                   px2, 2, 2)
            ELSE NewOICache]
  /\ lastAlerts = [k \in Keys |-> Null]
  /\ pendingAlerts = <<>>
  /\ finalCheckTimers = [k \in Keys |-> NoTimer]
  /\ flushes = <<>>
  /\ handoffs = [k \in Keys |-> NoHandoff]
  /\ delivered = [k \in Keys |-> FALSE]
  /\ config \in {DefaultConfig, LowConfig}
  /\ phase = "running"
  /\ emptyFlushes = 0
  /\ revisions = [k \in Keys |-> NoRevision]
NextInterpreter == TickShort \/ MinuteCheck \/ AnyTrade \/ Sink
SpecInterpreter == InitInterpreter /\ [][NextInterpreter]_vars

\* aggressive buying with the OI feed delivering, and among the messages some
\* whose trade time, open interest, mark price or OI timestamp is not a number
MalformedTrade ==
  \E p \in TradePrices, q \in TradeQuantities :
    TradeEventAt("ADAUSDT", NaN, p, q, FALSE)
MalformedOIFeed ==
  \/ OpenInterestEventAt("ADAUSDT", NaN, now)
  \/ \E oi \in OIValues : OpenInterestEventAt("ADAUSDT", oi, NaN)
  \/ MarkPriceEventAt("ADAUSDT", NaN, now)
  \/ \E px \in MarkPrices : MarkPriceEventAt("ADAUSDT", px, NaN)
NextMalformed ==
  \/ TickShort \/ MinuteCheck \/ BuyTrade \/ OIFeed \/ Timers \/ Sink
  \/ MalformedTrade \/ MalformedOIFeed
SpecMalformed == Init /\ [][NextMalformed]_vars

\* aggressive buying, the OI feed silent, and a SIGINT at any moment; while
\* shutdown awaits its send the sockets are closing and a trade message may
\* still be delivered
NextShutdown ==
  \/ TickShort \/ MinuteCheck \/ BuyTrade \/ Timers \/ Sink
  \/ Shutdown \/ Exit
SpecShutdown == Init /\ [][NextShutdown]_vars

\* aggressive buying, the OI feed silent, and flushPendingAlerts called also
\* by callers other than the minute checker, whatever is pending
NextFlushCalls == TickShort \/ MinuteCheck \/ BuyTrade \/ Timers \/ Sink \/ FlushCall
SpecFlushCalls == Init /\ [][NextFlushCalls]_vars

\* the bot has started and heard nothing during its first minute; from second
\* 0 of the next one, the interval's callback yet to run, both sides trade, up to the second at which the timeout of a
\* candidate admitted at second 0 fires, and the OI feed, connected one OI
\* window before that second, repeats one value
RevisionMaxTime == 2 * TicksPerMinute - FinalCheckOffsetTicks
InitRevisions ==
  /\ now = TicksPerMinute
  /\ minuteChecked = FALSE
  /\ states = [s \in Symbols |-> NewSymbolState]
  /\ oiCache = [s \in Symbols |-> NewOICache]
  /\ lastAlerts = [k \in Keys |-> Null]
  /\ pendingAlerts = <<>>
  /\ finalCheckTimers = [k \in Keys |-> NoTimer]
  /\ flushes = <<>>
  /\ handoffs = [k \in Keys |-> NoHandoff]
  /\ delivered = [k \in Keys |-> FALSE]
  /\ config = DefaultConfig
  /\ phase = "running"
  /\ emptyFlushes = 0
  /\ revisions = [k \in Keys |-> NoRevision]
TickRevisions == TickBefore(RevisionMaxTime)
SteadyOIFeed ==
  /\ now >= RevisionMaxTime - OIWindowTicks
  /\ \/ OpenInterestEvent("ADAUSDT", 100)
     \/ MarkPriceEvent("ADAUSDT", 100)
NextRevisions ==
  TickRevisions \/ MinuteCheck \/ AnyTrade \/ SteadyOIFeed \/ Timers \/ Sink
SpecRevisions == InitRevisions /\ [][NextRevisions]_vars

\* the interpreter's inputs as above, the gate thresholds being the defaults
\* or set by the environment to the values of OI_THRESHOLD and PRICE_THRESHOLD
InitGate ==
  /\ now = 2
  /\ minuteChecked = TRUE
  /\ states = [s \in Symbols |-> NewSymbolState]
  /\ \E oi1, oi2 \in FineOIValues, px1, px2 \in FineMarkPrices :
       oiCache =
         [s \in Symbols |->
            IF s = "ADAUSDT"
            THEN handleMarkPrice(
                   handleOpenInterest(
                     handleMarkPrice(
                       handleOpenInterest(NewOICache, oi1, 1, 1), px1, 1, 1),
                     oi2, 2, 2),
                   px2, 2, 2)
            ELSE NewOICache]
  /\ lastAlerts = [k \in Keys |-> Null]
  /\ pendingAlerts = <<>>
  /\ finalCheckTimers = [k \in Keys |-> NoTimer]
  /\ flushes = <<>>
  /\ handoffs = [k \in Keys |-> NoHandoff]
  /\ delivered = [k \in Keys |-> FALSE]
  /\ config \in {DefaultConfig, EqualConfig}
  /\ phase = "running"
  /\ emptyFlushes = 0
  /\ revisions = [k \in Keys |-> NoRevision]
SpecGate == InitGate /\ [][NextInterpreter]_vars

\* ------------------------------------------------------------- properties
\* this step hands an alert of key k to the sink
Handed(k) == handoffs'[k] # handoffs[k]
\* this step ends a call of flushPendingAlerts
FlushCompletes == Len(flushes') < Len(flushes)
\* the candidate of entry e is no longer in pendingAlerts after this step
Removed(e) ==
  \/ ~PendingHas(pendingAlerts', e.key)
  \/ PendingGet(pendingAlerts', e.key).timestamp # e.data.timestamp
\* this step admits a candidate for key k: handleMessage records its cooldown
Admits(k) == lastAlerts'[k] # lastAlerts[k]
\* this step stores a candidate for key k in pendingAlerts
Stores(k) == ~PendingHas(pendingAlerts, k) /\ PendingHas(pendingAlerts', k)
\* this step is the timeout of key k firing
TimerFires(k) ==
  /\ TimerDue(k)
  /\ ~finalCheckTimers'[k].armed
  /\ flushes' = flushes
  /\ lastAlerts' = lastAlerts
\* the first minute boundary after time t
NextBoundary(t) == t + TicksPerMinute - SecondOfMinute(t)

\* the last minute boundary of the short runs
LastBoundary == (ShortMaxTime \div TicksPerMinute) * TicksPerMinute

\* C1: two alerts handed to the sink for the same (instrument, side) key are
\* at least the cooldown apart.
C1_AlertsSeparatedByCooldown ==
  [][\A k \in Keys :
       Handed(k) /\ handoffs[k].at # Null
         => handoffs'[k].at - handoffs[k].at >= CooldownTicks]_vars

\* C2: every stored candidate is handed to the sink exactly once: no
\* candidate is handed over a second time, and no candidate leaves
\* pendingAlerts without having been handed over.
C2_EachCandidateSentExactlyOnce ==
  [][/\ \A k \in Keys : handoffs'[k].count <= 1
     /\ \A i \in 1..Len(pendingAlerts) :
          Removed(pendingAlerts[i])
            => handoffs'[pendingAlerts[i].key].timestamp
                 = pendingAlerts[i].data.timestamp]_vars

\* C3: when a flush completes, pendingAlerts is empty and no timer is armed
\* or registered for a key of that flush, whether its send resolved or threw.
C3_FlushLeavesNothingBehind ==
  [][FlushCompletes
       => /\ pendingAlerts' = <<>>
          /\ \A i \in 1..Len(pendingAlerts) :
               /\ ~finalCheckTimers'[pendingAlerts[i].key].registered
               /\ ~finalCheckTimers'[pendingAlerts[i].key].armed]_vars

C5_AdmitOnPendingKeyChangesNothing ==
  [][/\ \A k \in Keys :
          Admits(k) /\ PendingHas(pendingAlerts, k)
            => /\ pendingAlerts' = pendingAlerts
               /\ finalCheckTimers' = finalCheckTimers
     /\ \A i, j \in 1..Len(pendingAlerts') :
          pendingAlerts'[i].key = pendingAlerts'[j].key => i = j]_vars

\* a candidate was admitted for a key while an earlier candidate of the key
\* was pending, and the earlier one is the one stored
C5_Witness ==
  \E k \in Keys :
    /\ PendingHas(pendingAlerts, k)
    /\ lastAlerts[k] > PendingGet(pendingAlerts, k).timestamp

\* C6: in every state in which the cooldown gate lets a candidate for a key
\* through, the scheduler holds no pending candidate for that key.
C6_GateNeverApprovesPendingKey ==
  \A k \in Keys :
    canAlert(lastAlerts, k[1], [dominantSide |-> k[2]], now)
      => ~PendingHas(pendingAlerts, k)

C9_RevisionOnTimer ==
  [][\A k \in Keys :
       TimerFires(k) /\ PendingHas(pendingAlerts, k)
         => LET old == PendingGet(pendingAlerts, k)
                fresh == getOIStats(oiCache[k[1]], now)
            IN /\ Len(pendingAlerts') = Len(pendingAlerts)
               /\ \A i \in 1..Len(pendingAlerts) :
                    /\ pendingAlerts'[i].key = pendingAlerts[i].key
                    /\ pendingAlerts[i].key # k => pendingAlerts'[i] = pendingAlerts[i]
               /\ PendingGet(pendingAlerts', k).stats = old.stats
               /\ PendingGet(pendingAlerts', k).symbol = old.symbol
               /\ PendingGet(pendingAlerts', k).timestamp = old.timestamp
               /\ IF fresh # NullRec /\ fresh.hasWindowData
                  THEN /\ PendingGet(pendingAlerts', k).interpretation
                            = interpretSignal(old.stats, fresh)
                       /\ PendingGet(pendingAlerts', k).oiStats = fresh
                  ELSE PendingGet(pendingAlerts', k) = old]_vars

\* a pending candidate whose timer has fired holds an OI snapshot with window
\* data and an interpretation that overrides the flow direction with it,
\* though it was admitted when the history was too young for window data
C9_Witness ==
  \E i \in 1..Len(pendingAlerts) :
    LET d == pendingAlerts[i].data
    IN /\ d.timestamp <= OIWindowTicks
       /\ ~finalCheckTimers[pendingAlerts[i].key].registered
       /\ d.oiStats # NullRec
       /\ d.oiStats.hasWindowData
       /\ d.interpretation.oiOverride

\* C10: the cooldown entry of a key is created or updated only in a step in
\* which a send of an alert for that key resolves.
C10_CooldownOnlyOnEmission ==
  [][\A k \in Keys :
       Admits(k)
         => /\ \E f \in 1..Len(flushes) : flushes[f].key = k
            /\ flushes' # flushes
            /\ delivered'[k]]_vars

\* ------------------------------------------------------------------- C11
\* the gate's answer for key k at the current instant
GateOpen(k) == canAlert(lastAlerts, k[1], [dominantSide |-> k[2]], now)

\* C11: the gate answers true for a key exactly when no emission was ever
\* recorded for it or at least the cooldown has elapsed since the last
\* recorded one; it answers false at every instant strictly inside the cooldown
C11_GateOpenIffNeverOrCooledDown ==
  \A k \in Keys :
    GateOpen(k) <=>
      (lastAlerts[k] = Null \/ now - lastAlerts[k] >= CooldownTicks)

\* an emission was recorded exactly one cooldown ago and the gate is open again
C11_Witness ==
  \E k \in Keys :
    /\ lastAlerts[k] # Null
    /\ now - lastAlerts[k] = CooldownTicks
    /\ GateOpen(k)

\* ------------------------------------------------------------------- C12
\* C12: recording an emission for one key changes that key's gate entry
\* only: the entry and the gate's answer for the instrument's opposite side
\* and for every other instrument are what they were before
C12_RecordChangesOneKeyOnly ==
  [][\A k \in Keys :
       Admits(k) =>
         \A j \in Keys \ {k} :
           /\ lastAlerts'[j] = lastAlerts[j]
           /\ GateOpen(j)' = GateOpen(j)]_vars

\* emissions recorded at different instants for two instruments, and for both
\* sides of one of them, while a fourth key has none
C12_Witness ==
  \E k1, k2, k3, k4 \in Keys :
    /\ k1[1] # k2[1] /\ k3[1] = k1[1] /\ k3 # k1
    /\ lastAlerts[k1] # Null /\ lastAlerts[k2] # Null /\ lastAlerts[k3] # Null
    /\ lastAlerts[k1] < lastAlerts[k2]
    /\ lastAlerts[k4] = Null

\* ------------------------------------------------------------------- C13
\* C13: once the clock has advanced past the window duration beyond an
\* instrument's last trade with no new trade arriving, getStats returns null
\* for it
C13_StaleWindowReportsNothing ==
  \A s \in Symbols :
    (\A i \in 1..Len(states[s].trades) :
       now - states[s].trades[i].timestamp > WindowTicks)
      => getStats(states[s]) = NullRec

\* ------------------------------------------------------------------- C14
\* C14: whatever the order in which trades were delivered, every retained
\* trade has timestamp >= T - windowDuration, T being the latest trade
\* timestamp the instrument has received (T is at least the greatest retained
\* timestamp, so any two retained trades are within one window of each other)
C14_RetainedWithinWindowOfLatest ==
  \A s \in Symbols :
    \A i, j \in 1..Len(states[s].trades) :
      states[s].trades[i].timestamp >= states[s].trades[j].timestamp - WindowTicks

\* ------------------------------------------------------------------- C15
\* C15: after every addTrade and reset, firstPrice is the price of the
\* retained trade with the smallest timestamp, and is null exactly when the
\* window holds no trade, whatever the arrival order
C15_FirstPriceIsOldestRetained ==
  \A s \in Symbols :
    LET trades == states[s].trades
    IN IF Len(trades) = 0
       THEN states[s].firstPrice = Null
       ELSE \E i \in 1..Len(trades) :
              /\ \A j \in 1..Len(trades) : trades[i].timestamp <= trades[j].timestamp
              /\ states[s].firstPrice = trades[i].price

\* ------------------------------------------------------------------- C16
\* C16: in every non-null result of getStats the buy and sell volumes add up
\* to the total, dominance is max(buy, sell) / total * 100 and lies between 50
\* and 100, and the dominant side is buy exactly when the buy volume is
\* greater than the sell volume, so that equal volumes yield sell
RECURSIVE GCD(_, _)
GCD(a, b) == IF b = 0 THEN a ELSE GCD(b, a % b)
\* the fraction num/den in lowest terms
Reduced(num, den) == <<num \div GCD(num, den), den \div GCD(num, den)>>

C16_VolumesDominanceAndSide ==
  \A s \in Symbols :
    LET r == getStats(states[s])
    IN r # NullRec =>
         /\ r.buyVolume + r.sellVolume = r.totalVolume
         /\ r.dominance.den > 0
         /\ Reduced(r.dominance.num, r.dominance.den)
              = Reduced((IF r.buyVolume >= r.sellVolume THEN r.buyVolume
                         ELSE r.sellVolume) * 100, r.totalVolume)
         /\ 50 * r.dominance.den <= r.dominance.num
         /\ r.dominance.num <= 100 * r.dominance.den
         /\ (r.dominantSide = "buy") <=> (r.buyVolume > r.sellVolume)

\* a window holding as much buying as selling: dominance is 50 and the side sell
C16_Witness ==
  \E s \in Symbols :
    LET r == getStats(states[s])
    IN /\ r # NullRec
       /\ r.buyVolume = r.sellVolume
       /\ r.dominantSide = "sell"
       /\ r.dominance.num = 50 * r.dominance.den

\* ------------------------------------------------------------------- C18
\* the points of history h that are not older than the retention horizon
Fresh(h) == SelectSeq(h, LAMBDA item : item.ts >= now - HistoryTicks)

\* C18: an open-interest or mark-price event changes one of the instrument's
\* two latest values; when both are then known it appends exactly one point,
\* made of the two latest values, and otherwise none; right after an append
\* no retained point is older than the retention horizon
C18_EventAppendsOnePointAndPrunes ==
  [][\A s \in Symbols :
       oiCache'[s] # oiCache[s] =>
         LET c == oiCache[s]
             d == oiCache'[s]
         IN /\ d.lastOI = c.lastOI \/ d.lastPrice = c.lastPrice
            /\ IF d.lastOI # Null /\ d.lastPrice # Null
               THEN /\ \E ts \in 1..now :
                         d.history =
                           Append(Fresh(c.history),
                                  [ts |-> ts, oi |-> d.lastOI, price |-> d.lastPrice])
                    /\ \A i \in 1..Len(d.history) :
                         d.history[i].ts >= now - HistoryTicks
               ELSE d.history = c.history]_vars

\* a point was appended while an earlier one sat exactly on the retention
\* horizon, and both are retained
C18_Witness ==
  \E s \in Symbols :
    LET h == oiCache[s].history
    IN /\ Len(h) >= 2
       /\ h[1].ts = now - HistoryTicks
       /\ h[Len(h)].ts = now

\* ------------------------------------------------------------------- C19
\* C19: getOIStats is null exactly when the history is empty; otherwise its
\* 'now' values are those of the latest point, its 'past' values those of the
\* point of greatest timestamp among the points at or before the current time
\* minus the analysis window, its deltas the percentage changes from 'past'
\* to 'now', and hasWindowData is false, with null deltas, exactly when no
\* point that old exists
C19_SnapshotPastIsGreatestOldTimestamp ==
  \A s \in Symbols :
    LET h == oiCache[s].history
        r == getOIStats(oiCache[s], now)
        old == {i \in 1..Len(h) : h[i].ts <= now - OIWindowTicks}
    IN /\ (r = NullRec) <=> (Len(h) = 0)
       /\ r # NullRec =>
            /\ r.oiNow = h[Len(h)].oi
            /\ r.priceNow = h[Len(h)].price
            /\ r.hasWindowData <=> (old # {})
            /\ ~r.hasWindowData =>
                 r.oiDeltaPct = NullPct /\ r.priceDeltaPct = NullPct
            /\ r.hasWindowData =>
                 \E i \in old :
                   /\ \A j \in old : h[j].ts <= h[i].ts
                   /\ r.oi5mAgo = h[i].oi
                   /\ r.price5mAgo = h[i].price
                   /\ r.oiDeltaPct =
                        [num |-> (r.oiNow - h[i].oi) * 100, den |-> h[i].oi]
                   /\ r.priceDeltaPct =
                        [num |-> (r.priceNow - h[i].price) * 100, den |-> h[i].price]

\* ------------------------------------------------------------------- C20
\* the interpretation of pending candidate i was made without usable OI data:
\* the snapshot it was made with is absent or has no window data (OI_ENABLED
\* is always true in this program)
WithoutOIData(i) ==
  LET d == pendingAlerts[i].data
  IN ~OI_ENABLED \/ d.oiStats = NullRec \/ ~d.oiStats.hasWindowData

\* the fallback of the interpreter, but for the decision kind
FallsBackToFlow(i) ==
  LET n == pendingAlerts[i].data.interpretation
  IN /\ n.finalDirection = n.flowDirection
     /\ ~n.oiUsed
     /\ ~n.oiOverride

OIDeltaReaches(o) ==
  Abs(o.oiDeltaPct.num) * 100 >= config.oiMinDeltaPercent * o.oiDeltaPct.den
\* the snapshot's price delta, in absolute value, reaches
\* CONFIG.OI_MIN_PRICE_CHANGE_PERCENT
PriceDeltaReaches(o) ==
  Abs(o.priceDeltaPct.num) * 100
    >= config.oiMinPriceChangePercent * o.priceDeltaPct.den

\* C21: for an interpretation made with a snapshot that has window data,
\* oiUsed is true exactly when both deltas reach their thresholds; when one
\* does not, the final direction is the flow direction, the decision BASE,
\* oiUsed false, and oiDeltaPassed and oiPricePassed tell each threshold's
\* outcome
C21_GateThresholds ==
  \A i \in 1..Len(pendingAlerts) :
    LET n == pendingAlerts[i].data.interpretation
        o == pendingAlerts[i].data.oiStats
    IN (o # NullRec /\ o.hasWindowData) =>
         /\ n.oiUsed <=> (OIDeltaReaches(o) /\ PriceDeltaReaches(o))
         /\ ~(OIDeltaReaches(o) /\ PriceDeltaReaches(o)) =>
              /\ n.finalDirection = n.flowDirection
              /\ n.decision = "BASE"
              /\ n.oiDeltaPassed = OIDeltaReaches(o)
              /\ n.oiPricePassed = PriceDeltaReaches(o)

\* under the default thresholds, a candidate interpreted with a price delta
\* exactly on its threshold and an OI delta under its own: OI is not used
C21_Witness ==
  \E i \in 1..Len(pendingAlerts) :
    LET n == pendingAlerts[i].data.interpretation
        o == pendingAlerts[i].data.oiStats
    IN /\ config = DefaultConfig
       /\ o # NullRec /\ o.hasWindowData
       /\ o.priceDeltaPct.num * 100 = OIMinPriceChangeHundredths * o.priceDeltaPct.den
       /\ ~OIDeltaReaches(o)
       /\ ~n.oiUsed /\ ~n.oiDeltaPassed /\ n.oiPricePassed
       /\ n.decision = "BASE"

\* ------------------------------------------------------------------- C22
\* the movements of a snapshot's price and OI, classified with the 0.1 % and
\* 0.5 % of interpretSignal
PriceFalling(o) == o.priceDeltaPct.num * 100 < -PriceThresholdHundredths * o.priceDeltaPct.den
PriceRising(o) == o.priceDeltaPct.num * 100 > PriceThresholdHundredths * o.priceDeltaPct.den
OIFalling(o) == o.oiDeltaPct.num * 100 < -OIThresholdHundredths * o.oiDeltaPct.den
OIRising(o) == o.oiDeltaPct.num * 100 > OIThresholdHundredths * o.oiDeltaPct.den

\* interpretation n has final direction final and decision kind
Decides(n, final, kind) == n.finalDirection = final /\ n.decision = kind

\* C22: when both gate thresholds are reached, the interpretation follows the
\* quadrant table whatever the flow direction: price falling and OI rising
\* give SHORT/CONTINUATION, falling and falling LONG/BOUNCE, rising and rising
\* LONG/CONTINUATION, rising and falling SHORT/BOUNCE, and when the price or
\* the OI movement is not significant the final direction is the flow
\* direction and the decision INCONCLUSIVE
C22_QuadrantTable ==
  \A i \in 1..Len(pendingAlerts) :
    LET n == pendingAlerts[i].data.interpretation
        o == pendingAlerts[i].data.oiStats
    IN (o # NullRec /\ o.hasWindowData
          /\ OIDeltaReaches(o) /\ PriceDeltaReaches(o)) =>
         /\ (PriceFalling(o) /\ OIRising(o)) => Decides(n, "SHORT", "CONTINUATION")
         /\ (PriceFalling(o) /\ OIFalling(o)) => Decides(n, "LONG", "BOUNCE")
         /\ (PriceRising(o) /\ OIRising(o)) => Decides(n, "LONG", "CONTINUATION")
         /\ (PriceRising(o) /\ OIFalling(o)) => Decides(n, "SHORT", "BOUNCE")
         /\ (~(PriceFalling(o) \/ PriceRising(o)) \/ ~(OIFalling(o) \/ OIRising(o)))
              => Decides(n, n.flowDirection, "INCONCLUSIVE")

\* a LONG and a SHORT candidate both interpreted with a rising price and a
\* falling OI: both come out SHORT/BOUNCE
C22_Witness ==
  \E i, j \in 1..Len(pendingAlerts) :
    LET n == pendingAlerts[i].data.interpretation
        m == pendingAlerts[j].data.interpretation
        o == pendingAlerts[i].data.oiStats
    IN /\ n.flowDirection = "LONG" /\ m.flowDirection = "SHORT"
       /\ o = pendingAlerts[j].data.oiStats
       /\ o # NullRec /\ o.hasWindowData
       /\ PriceRising(o) /\ OIFalling(o)
       /\ Decides(n, "SHORT", "BOUNCE") /\ Decides(m, "SHORT", "BOUNCE")

\* a candidate interpreted with both gate thresholds reached and the OI
\* movement not significant
C22_InconclusiveReached ==
  \E i \in 1..Len(pendingAlerts) :
    LET n == pendingAlerts[i].data.interpretation
    IN n.oiUsed /\ n.decision = "INCONCLUSIVE"

\* ------------------------------------------------------------------- C23
\* C23: in every interpretation, oiOverride is true exactly when the final
\* direction differs from the flow direction
C23_OverrideIffDirectionChanged ==
  \A i \in 1..Len(pendingAlerts) :
    LET n == pendingAlerts[i].data.interpretation
    IN n.oiOverride <=> (n.finalDirection # n.flowDirection)

\* two candidates interpreted with the same snapshot, one whose direction the
\* OI overrides and one whose direction it continues
C23_Witness ==
  \E i, j \in 1..Len(pendingAlerts) :
    LET n == pendingAlerts[i].data.interpretation
        m == pendingAlerts[j].data.interpretation
    IN /\ n.oiOverride /\ n.finalDirection # n.flowDirection
       /\ m.oiUsed /\ ~m.oiOverride /\ m.finalDirection = m.flowDirection
       /\ m.decision # "INCONCLUSIVE"

\* ------------------------------------------------------------------- C25
\* C25: a feed event one of whose fields is not a number is dropped and
\* changes no core state: the trade windows, the OI latest values and
\* history, the cooldown entries and the pending candidates are after it what
\* they were before, for trade events as for open-interest and mark-price
\* events
C25_MalformedEventChangesNothing ==
  [][(MalformedTrade \/ MalformedOIFeed)
       => UNCHANGED <<states, oiCache, lastAlerts, pendingAlerts>>]_vars

\* ------------------------------------------------------------------- C26
\* C26: once shutdown has stopped the scheduler, no revision timeout is armed
\* until the process exits, also when a trade event is delivered in between
C26_NoTimerArmedAfterStop ==
  phase = "stopping" => \A k \in Keys : ~finalCheckTimers[k].armed

\* C27: a call of flushPendingAlerts that finds nothing pending hands nothing
\* to the sink and leaves the pending set, the running flushes, the revision
\* timers and the cooldown table as they were, however often it is repeated
C27_EmptyFlushChangesNothing ==
  [][(FlushCall /\ pendingAlerts = <<>>) =>
       UNCHANGED <<pendingAlerts, flushes, handoffs, delivered, finalCheckTimers,
                   lastAlerts, states>>]_vars

\* flushPendingAlerts has twice found nothing pending after an alert went out
C27_Witness ==
  /\ emptyFlushes = MaxEmptyFlushes
  /\ pendingAlerts = <<>>
  /\ \E k \in Keys : handoffs[k] # NoHandoff

\* C28: between its admission and its removal a pending candidate is revised
\* by performFinalOICheck at most once, and a timeout that fires for a key
\* that is not pending leaves every pending candidate as it was
C28_RevisedAtMostOnce ==
  /\ [](\A k \in Keys : revisions[k].made <= 1)
  /\ [][\A k \in Keys :
         (FinalCheckTimer(k) /\ ~PendingHas(pendingAlerts, k))
            => UNCHANGED pendingAlerts]_vars

\* one candidate was revised, and a timeout fired for a key no longer pending
C28_Witness ==
  /\ \E k \in Keys : revisions[k].made = 1
  /\ \E k \in Keys : revisions[k].skipped

\* C29: an alert is handed to the sink only by a flush that the interval's
\* callback started at second 0 (never by an admission, a revision timeout or
\* the shutdown), and such a flush does not send a candidate admitted while
\* it awaits the sink: every alert handed over was admitted no later than the
\* minute boundary at which its flush started, hence no later than the last
\* minute boundary before the handover
C29_SentOnlyByFlushOfEarlierCandidates ==
  /\ [][handoffs' # handoffs =>
          \/ MinuteCheck /\ SecondOfMinute(now) = 0
          \/ Sink]_vars
  /\ [](\A k \in Keys :
          handoffs[k] # NoHandoff =>
            handoffs[k].timestamp <= handoffs[k].at - SecondOfMinute(handoffs[k].at))

\* C30: every instrument's OI history is in non-decreasing order of timestamp,
\* whatever the interleaving of open-interest and mark-price messages, so its
\* last point has the greatest timestamp
C30_HistoryOrderedByTimestamp ==
  \A s \in Symbols :
    LET h == oiCache[s].history
    IN /\ \A i, j \in 1..Len(h) : i < j => h[i].ts <= h[j].ts
       /\ \A i \in 1..Len(h) : h[i].ts <= h[Len(h)].ts

\* C31: the step that admits a candidate for an instrument records the key's
\* cooldown and empties the instrument's window, so getStats is null after it
\* and stays null until a trade arrives; the trades a later candidate counts
\* have therefore all arrived after this admission
C31_AdmissionRecordsAndClears ==
  [][/\ \A k \in Keys :
          (Admits(k) \/ Stores(k)) =>
             /\ lastAlerts'[k] = now
             /\ states'[k[1]].trades = <<>>
             /\ getStats(states'[k[1]]) = NullRec
     /\ \A s \in Symbols :
          (getStats(states[s]) = NullRec /\ getStats(states'[s]) # NullRec)
             => Len(states'[s].trades) = 1]_vars

\* a candidate admitted this second is pending, its cooldown recorded and the
\* instrument's window empty
C31_Witness ==
  \E k \in Keys :
    /\ PendingHas(pendingAlerts, k)
    /\ PendingGet(pendingAlerts, k).timestamp = now
    /\ PendingGet(pendingAlerts, k).stats.tradeCount = MaxWindowTrades
    /\ lastAlerts[k] = now
    /\ getStats(states[k[1]]) = NullRec

\* C32: two alerts handed to the sink for the same instrument with the same
\* finalDirection are at least the cooldown apart, also when the OI override
\* turned one of them away from its dominant side (stated of the alerts of an
\* instrument's two keys, both handed over and not yet cleared)
C32_SameDirectionAlertsCooldownApart ==
  \A k1, k2 \in Keys :
    (/\ k1 # k2
     /\ k1[1] = k2[1]
     /\ PendingHas(pendingAlerts, k1) /\ PendingHas(pendingAlerts, k2)
     /\ handoffs[k1].timestamp = PendingGet(pendingAlerts, k1).timestamp
     /\ handoffs[k2].timestamp = PendingGet(pendingAlerts, k2).timestamp
     /\ PendingGet(pendingAlerts, k1).interpretation.finalDirection
          = PendingGet(pendingAlerts, k2).interpretation.finalDirection)
    => \/ handoffs[k1].at - handoffs[k2].at >= CooldownTicks
       \/ handoffs[k2].at - handoffs[k1].at >= CooldownTicks

\* C33: the stats of every admitted candidate meet the instrument's
\* thresholds (volume, dominance, size of the price move), and the price moved
\* the way of the dominant side: up for buy, down for sell
C33_AdmittedMeetsThresholdsAligned ==
  \A i \in 1..Len(pendingAlerts) :
    LET st == pendingAlerts[i].data.stats
    IN /\ st.totalVolume >= MinVolumeUSD
       /\ st.dominance.num >= MinDominance * st.dominance.den
       /\ Abs(st.priceChange.num) * 100 >= MinPriceChangeHundredths * st.priceChange.den
       /\ st.dominantSide = "buy" => st.priceChange.num > 0
       /\ st.dominantSide = "sell" => st.priceChange.num < 0

\* a buy candidate and a sell candidate are pending
C33_Witness ==
  /\ \E i \in 1..Len(pendingAlerts) :
       /\ pendingAlerts[i].data.stats.dominantSide = "buy"
       /\ pendingAlerts[i].data.stats.priceChange.num > 0
  /\ \E i \in 1..Len(pendingAlerts) :
       /\ pendingAlerts[i].data.stats.dominantSide = "sell"
       /\ pendingAlerts[i].data.stats.priceChange.num < 0

\* the pending candidates whose interpretation used OI all carry the decision
\* BOUNCE or CONTINUATION
UsedOIDecides ==
  \A i \in 1..Len(pendingAlerts) :
    pendingAlerts[i].data.interpretation.oiUsed =>
      pendingAlerts[i].data.interpretation.decision \in {"BOUNCE", "CONTINUATION"}

\* C34: with gate thresholds at least as large as OI_THRESHOLD and
\* PRICE_THRESHOLD the interpreter never decides INCONCLUSIVE: whenever oiUsed
\* is true the decision is BOUNCE or CONTINUATION
C34_NoInconclusiveFromSignificance ==
  (/\ config.oiMinDeltaPercent >= OIThresholdHundredths
   /\ config.oiMinPriceChangePercent >= PriceThresholdHundredths)
  => UsedOIDecides

\* C34 as amended: with gate thresholds strictly larger than OI_THRESHOLD and
\* PRICE_THRESHOLD, whenever oiUsed is true the decision is BOUNCE or
\* CONTINUATION
C34_NoInconclusiveAboveSignificance ==
  (/\ config.oiMinDeltaPercent > OIThresholdHundredths
   /\ config.oiMinPriceChangePercent > PriceThresholdHundredths)
  => UsedOIDecides

\* under the default thresholds a candidate whose interpretation used OI is
\* pending
C34_Witness ==
  /\ config = DefaultConfig
  /\ \E i \in 1..Len(pendingAlerts) :
       /\ pendingAlerts[i].data.interpretation.oiUsed
       /\ pendingAlerts[i].data.interpretation.decision \in {"BOUNCE", "CONTINUATION"}

\* C35: a candidate leaves the pending set only after it was handed to the
\* sink; a candidate stored while a flush awaits the sink is handed over by
\* that flush before the flush clears the pending set
C35_NoRemovalWithoutSend ==
  [][\A i \in 1..Len(pendingAlerts) :
       Removed(pendingAlerts[i])
         => /\ handoffs[pendingAlerts[i].key].timestamp
                 = pendingAlerts[i].data.timestamp
            /\ handoffs[pendingAlerts[i].key].count >= 1]_vars

\* a candidate stored after the minute boundary, while the flush of that
\* boundary was awaiting the sink, has been handed over and is gone
C35_Witness ==
  \E k \in Keys :
    /\ handoffs[k] # NoHandoff
    /\ handoffs[k].timestamp > handoffs[k].at - SecondOfMinute(handoffs[k].at)
    /\ ~PendingHas(pendingAlerts, k)
    /\ flushes = <<>>

====
